---- MODULE Spec2Model ----
(***************************************************************************)
(* A model of prepare_epub.py: the filename normalizer, the reference      *)
(* mapper, the XHTML fixer, the quiz normalizer, the OPF builder, the      *)
(* archive packager and the pipeline of main.                              *)
(*                                                                         *)
(* Strings are sequences of tokens.  A token is either one character       *)
(* (" ", "-", "_", ".", "/", "a", "A") or a word that the code matches as  *)
(* a unit ("final", "xhtml", ...).  The letters "a"/"A" stand for any      *)
(* letter that is not part of such a word, so a match of the word in the   *)
(* character string is a match of the token in the token string.           *)
(***************************************************************************)
EXTENDS Integers, Sequences, FiniteSets, TLC

VARIABLES
    pc,         \* position of the running program
    name,       \* normalize_filename: the argument
    once,       \* normalize_filename(name)
    twice,      \* normalize_filename(normalize_filename(name))
    text,       \* fix_named_entities: the argument
    fixedText,  \* fix_named_entities(text)
    doc,        \* the content of one content file
    runs,       \* how often that file has been processed
    fs,         \* the files under the project root: relative path -> content
    fs0,        \* the files as main found them (history, never written)
    tocArg,     \* args.toc, relative to the project root
    mapping,    \* the mapping rename_files returned
    epub,       \* the archive at output_path: <<>> or <<its entries>>
    validation  \* what run_epubcheck reported

nfvars == <<name, once, twice>>
entvars == <<text, fixedText>>
docvars == <<doc, runs>>
projvars == <<fs, fs0, tocArg, mapping, epub, validation>>
vars == <<pc, nfvars, entvars, docvars, projvars>>

\* The variables of the parts a specification does not run stay as here.
IdleNormalizer == name = <<>> /\ once = <<>> /\ twice = <<>>
IdleEntities == text = <<>> /\ fixedText = <<>>
IdleDoc == doc = <<>> /\ runs = 0
IdleProject ==
    /\ fs = <<>> /\ fs0 = <<>> /\ tocArg = <<>>
    /\ mapping = <<>> /\ epub = <<>> /\ validation = "none"

----------------------------------------------------------------------------
(* Bounds *)

\* longest stem, in tokens, of a filename given to normalize_filename
MaxStem == 4

\* most pieces (entities, stray "&", ";", names, letters) of a text given to
\* fix_named_entities
MaxPieces == 3

\* most elements below body in a document given to fix_xhtml_file
MaxFree == 4

\* most list items a quiz list starts with
MaxOptions == 5

\* most list items of a list nested in a quiz list's first item
MaxNested == 2

\* most runs of populate_quiz_options over one file
MaxRuns == 2

\* most directory entries whose every listing order is explored
MaxPermuted == 3

\* most content files of a project, the table of contents not counted
MaxFiles == 2

\* most files of one kind (content, styles, images, fonts) given to
\* build_content_opf
MaxAssets == 2

----------------------------------------------------------------------------
(* String helpers: str.lower, str.replace(' ', '-'), os.path.splitext *)

\* str.lower() on one token
LowerTok(t) ==
    CASE t = "A" -> "a"
      [] t = "FINAL" -> "final"
      [] t = "XHTML" -> "xhtml"
      [] t = "PNG" -> "png"
      [] t = "QuizKey" -> "quizkey"
      [] t = "TableOfContents" -> "tableofcontents"
      [] OTHER -> t

Lower(s) == [i \in 1..Len(s) |-> LowerTok(s[i])]

\* s.replace(' ', '-')
SpacesToHyphens(s) == [i \in 1..Len(s) |-> IF s[i] = " " THEN "-" ELSE s[i]]

\* the greatest index of tok in s, 0 when absent (str.rfind, 1-based)
RFind(s, tok) ==
    LET hits == {i \in 1..Len(s) : s[i] = tok}
    IN  IF hits = {} THEN 0 ELSE CHOOSE i \in hits : \A j \in hits : j <= i

\* os.path.splitext: the extension starts at the last dot after the last
\* separator, unless only dots stand between the separator and that dot
SplitExt(p) ==
    LET sepIndex == RFind(p, "/")
        dotIndex == RFind(p, ".")
    IN  IF dotIndex > sepIndex
           /\ \E k \in (sepIndex + 1)..(dotIndex - 1) : p[k] # "."
        THEN <<SubSeq(p, 1, dotIndex - 1), SubSeq(p, dotIndex, Len(p))>>
        ELSE <<p, <<>> >>

\* re.sub(r'[-_]?final$', '', s)
StripFinal(s) ==
    LET n == Len(s)
    IN  IF n >= 1 /\ s[n] = "final"
        THEN IF n >= 2 /\ s[n - 1] \in {"-", "_"}
             THEN SubSeq(s, 1, n - 2)
             ELSE SubSeq(s, 1, n - 1)
        ELSE s

\* re.sub(r'-{2,}', '-', s)
RECURSIVE CollapseHyphens(_)
CollapseHyphens(s) ==
    IF Len(s) <= 1 THEN s
    ELSE IF s[1] = "-" /\ s[2] = "-" THEN CollapseHyphens(Tail(s))
    ELSE <<s[1]>> \o CollapseHyphens(Tail(s))

\* s.rstrip('-')
RECURSIVE RStripHyphens(_)
RStripHyphens(s) ==
    IF Len(s) >= 1 /\ s[Len(s)] = "-"
    THEN RStripHyphens(SubSeq(s, 1, Len(s) - 1))
    ELSE s

normalize_filename(n) ==
    LET stem == SplitExt(n)[1]
        ext == SplitExt(n)[2]
        lowered == SpacesToHyphens(Lower(stem))
        stripped == StripFinal(lowered)
        normalized == RStripHyphens(CollapseHyphens(stripped))
    IN  normalized \o Lower(ext)

----------------------------------------------------------------------------
(* fix_named_entities.  A text is a sequence of tokens: "&", ";", an entity *)
(* name ("nbsp"), a number with its sign ("#160"), or a letter.             *)

\* the replacements dictionary, in insertion order: <<name, number>>
replacements ==
    << <<"nbsp", "#160">>, <<"ensp", "#8194">>, <<"emsp", "#8195">>,
       <<"thinsp", "#8201">>, <<"ndash", "#8211">>, <<"mdash", "#8212">>,
       <<"hellip", "#8230">>, <<"lsquo", "#8216">>, <<"rsquo", "#8217">>,
       <<"ldquo", "#8220">>, <<"rdquo", "#8221">>, <<"copy", "#169">>,
       <<"reg", "#174">> >>

Named(k) == <<"&", replacements[k][1], ";">>
Numeric(k) == <<"&", replacements[k][2], ";">>

\* pat in s
Contains(s, pat) ==
    \E i \in 1..(Len(s) - Len(pat) + 1) : SubSeq(s, i, i + Len(pat) - 1) = pat

\* A slip: only the first occurrence is replaced (str.replace(old, new, 1)).
ReplaceFirst(s, old, new) ==
    IF Contains(s, old)
    THEN LET i == CHOOSE i \in 1..(Len(s) - Len(old) + 1) :
                      /\ SubSeq(s, i, i + Len(old) - 1) = old
                      /\ \A j \in 1..(i - 1) : SubSeq(s, j, j + Len(old) - 1) # old
         IN  SubSeq(s, 1, i - 1) \o new \o SubSeq(s, i + Len(old), Len(s))
    ELSE s

\* s.replace(old, new): every occurrence, left to right, without overlap
RECURSIVE Replace(_, _, _)
Replace(s, old, new) ==
    IF Len(s) < Len(old) THEN s
    ELSE IF SubSeq(s, 1, Len(old)) = old
         THEN new \o Replace(SubSeq(s, Len(old) + 1, Len(s)), old, new)
         ELSE <<s[1]>> \o Replace(Tail(s), old, new)

\* the loop over replacements.items(), from entry k on
RECURSIVE FixFrom(_, _)
FixFrom(s, k) ==
    IF k > Len(replacements) THEN s
    ELSE IF Contains(s, Named(k))
         THEN FixFrom(Replace(s, Named(k), Numeric(k)), k + 1)
         ELSE FixFrom(s, k + 1)

fix_named_entities(s) == FixFrom(s, 1)

----------------------------------------------------------------------------
(* The parsed document (BeautifulSoup).  A document is a record            *)
(*   nodes: node id -> [tag, attrs, kids, string]                          *)
(* Node 1 is the BeautifulSoup object itself ("[document]"), the only node *)
(* without a parent.  attrs maps the names of the attributes present to    *)
(* their values; kids is the sequence of child elements; string is the     *)
(* element's own character data.                                           *)

Root == 1

NoAttrs == [k \in {} |-> <<>>]

SetAttr(a, k, v) == [x \in (DOMAIN a) \cup {k} |-> IF x = k THEN v ELSE a[x]]

DelAttr(a, k) == [x \in (DOMAIN a) \ {k} |-> a[x]]

Range(q) == {q[i] : i \in 1..Len(q)}

\* the only element of a one-element set
The(S) == CHOOSE x \in S : TRUE

IndexOf(q, x) == CHOOSE i \in 1..Len(q) : q[i] = x

\* tag.parent; 0 stands for None
Parent(d, n) ==
    IF \E p \in DOMAIN d.nodes : n \in Range(d.nodes[p].kids)
    THEN CHOOSE p \in DOMAIN d.nodes : n \in Range(d.nodes[p].kids)
    ELSE 0

RECURSIVE Flatten(_)
Flatten(ss) == IF ss = <<>> THEN <<>> ELSE Head(ss) \o Flatten(Tail(ss))

\* n and its descendants in document order
RECURSIVE Preorder(_, _)
Preorder(d, n) ==
    <<n>> \o Flatten([i \in 1..Len(d.nodes[n].kids) |-> Preorder(d, d.nodes[n].kids[i])])

\* n.find_all(tag): the descendants of n with that tag, in document order
FindAll(d, n, tag) ==
    LET Match(m) == d.nodes[m].tag = tag
    IN  SelectSeq(Tail(Preorder(d, n)), Match)

\* the proper ancestors of n
RECURSIVE Ancestors(_, _)
Ancestors(d, n) ==
    IF Parent(d, n) = 0 THEN {} ELSE {Parent(d, n)} \cup Ancestors(d, Parent(d, n))

\* tag.extract()
Extract(d, n) ==
    LET p == Parent(d, n)
        NotN(m) == m # n
    IN  IF p = 0 THEN d
        ELSE [d EXCEPT !.nodes[p].kids = SelectSeq(@, NotN)]

\* target.insert_after(n), n detached
InsertAfter(d, target, n) ==
    LET p == Parent(d, target)
        q == d.nodes[p].kids
        i == IndexOf(q, target)
    IN  [d EXCEPT !.nodes[p].kids = SubSeq(q, 1, i) \o <<n>> \o SubSeq(q, i + 1, Len(q))]

\* soup.new_tag(...) followed by parent.append(new): the new node's id
NewId(d) == (CHOOSE m \in DOMAIN d.nodes : \A k \in DOMAIN d.nodes : k <= m) + 1

AppendNew(d, p, node) ==
    LET id == NewId(d)
    IN  [d EXCEPT !.nodes = [k \in (DOMAIN d.nodes) \cup {id} |->
                                IF k = id THEN node
                                ELSE IF k = p THEN [d.nodes[p] EXCEPT !.kids = Append(@, id)]
                                ELSE d.nodes[k]]]

----------------------------------------------------------------------------
(* BeautifulSoup(text, 'lxml') and str(soup) on character data and          *)
(* attribute values: the parser resolves a character reference and the     *)
(* serializer writes the character itself.                                 *)

CharOf(k) == "chr" \o replacements[k][2]

RECURSIVE DecodeFrom(_, _)
DecodeFrom(s, k) ==
    IF k > Len(replacements) \/ ~Contains(s, <<"&">>) THEN s
    ELSE IF Contains(s, Numeric(k))
         THEN DecodeFrom(Replace(s, Numeric(k), <<CharOf(k)>>), k)
    ELSE IF Contains(s, Named(k))
         THEN DecodeFrom(Replace(s, Named(k), <<CharOf(k)>>), k)
    ELSE DecodeFrom(s, k + 1)

ParseSerialize(s) == DecodeFrom(s, 1)

----------------------------------------------------------------------------
(* fix_xhtml_file *)

ListTags == {"ul", "ol", "li"}

\* lines 202-208: the namespaces of the first html element
EnsureNamespaces(d) ==
    LET found == FindAll(d, Root, "html")
    IN  IF found = <<>> THEN d
        ELSE LET h == found[1]
                 a1 == IF "xmlns" \in DOMAIN d.nodes[h].attrs THEN d.nodes[h].attrs
                       ELSE SetAttr(d.nodes[h].attrs, "xmlns", <<"http://www.w3.org/1999/xhtml">>)
                 a2 == IF "xmlns:epub" \in DOMAIN a1 THEN a1
                       ELSE SetAttr(a1, "xmlns:epub", <<"http://www.idpf.org/2007/ops">>)
             IN  [d EXCEPT !.nodes[h].attrs = a2]

\* lines 215-217: from the hr's parent up, until a tag that is no list tag
\* (or has no parent)
RECURSIVE ExitLists(_, _)
ExitLists(d, target) ==
    IF d.nodes[target].tag \in ListTags /\ Parent(d, target) # 0
    THEN ExitLists(d, Parent(d, target))
    ELSE target

\* lines 211-218: one hr of the loop
MoveHr(d, hr) ==
    LET parent == Parent(d, hr)
    IN  IF parent # 0 /\ d.nodes[parent].tag \in ListTags
        THEN LET d1 == Extract(d, hr)
             IN  InsertAfter(d1, ExitLists(d1, parent), hr)
        ELSE d

\* line 210: the loop over soup.find_all('hr'), a list made before the loop
RECURSIVE MoveHrs(_, _)
MoveHrs(d, hrs) ==
    IF hrs = <<>> THEN d ELSE MoveHrs(MoveHr(d, Head(hrs)), Tail(hrs))

\* lines 220-222
StripStyles(d) ==
    [d EXCEPT !.nodes = [n \in DOMAIN d.nodes |->
                            [d.nodes[n] EXCEPT !.attrs = DelAttr(@, "style")]]]

styles_to_ensure == << <<"../styles/style.css">>, <<"../styles/fonts.css">> >>

\* lines 228-231, from entry i of styles_to_ensure on
RECURSIVE EnsureLinksFrom(_, _, _, _)
EnsureLinksFrom(d, head, existing, i) ==
    IF i > Len(styles_to_ensure) THEN d
    ELSE IF styles_to_ensure[i] \in existing
         THEN EnsureLinksFrom(d, head, existing, i + 1)
         ELSE EnsureLinksFrom(
                  AppendNew(d, head,
                      [tag |-> "link",
                       attrs |-> [rel |-> <<"stylesheet">>, href |-> styles_to_ensure[i]],
                       kids |-> <<>>, string |-> <<>>]),
                  head, existing, i + 1)

\* lines 224-231
EnsureLinks(d) ==
    LET heads == FindAll(d, Root, "head")
    IN  IF heads = <<>> THEN d
        ELSE LET head == heads[1]
                 links == FindAll(d, head, "link")
                 existing_hrefs == {d.nodes[links[i]].attrs["href"] :
                                       i \in {j \in 1..Len(links) :
                                                "href" \in DOMAIN d.nodes[links[j]].attrs}}
             IN  EnsureLinksFrom(d, head, existing_hrefs, 1)

\* Path(p).stem: the last component without its last suffix
PathStem(p) ==
    LET nm == SubSeq(p, RFind(p, "/") + 1, Len(p))
        i == RFind(nm, ".")
    IN  IF 1 < i /\ i < Len(nm) THEN SubSeq(nm, 1, i - 1) ELSE nm

\* str.capitalize() on the first token
CapTok(t) ==
    CASE LowerTok(t) = "a" -> "A"
      [] LowerTok(t) = "final" -> "Final"
      [] LowerTok(t) = "xhtml" -> "Xhtml"
      [] LowerTok(t) = "png" -> "Png"
      [] LowerTok(t) = "quizkey" -> "Quizkey"
      [] OTHER -> t

Capitalize(s) == IF s = <<>> THEN s ELSE <<CapTok(s[1])>> \o Lower(Tail(s))

HyphensToSpaces(s) == [i \in 1..Len(s) |-> IF s[i] = "-" THEN " " ELSE s[i]]

\* lines 234-242: one img of the loop
FixImg(d, img) ==
    LET a == d.nodes[img].attrs
        normalized_src == normalize_filename(a["src"])
        a1 == SetAttr(a, "src", normalized_src)
        description == Capitalize(HyphensToSpaces(PathStem(normalized_src)))
        a2 == IF "alt" \notin DOMAIN a1 \/ a1["alt"] = <<>>
              THEN SetAttr(a1, "alt", <<"Illustration: ">> \o description)
              ELSE a1
    IN  [d EXCEPT !.nodes[img].attrs = a2]

\* line 233: the loop over soup.find_all('img', src=True)
RECURSIVE FixImgs(_, _)
FixImgs(d, imgs) ==
    IF imgs = <<>> THEN d
    ELSE IF "src" \in DOMAIN d.nodes[Head(imgs)].attrs
         THEN FixImgs(FixImg(d, Head(imgs)), Tail(imgs))
         ELSE FixImgs(d, Tail(imgs))

\* lines 197-201: the entities of the raw text, which is the character
\* data and the attribute values of the elements, then the parse
FixText(d) ==
    [d EXCEPT !.nodes = [n \in DOMAIN d.nodes |->
        [d.nodes[n] EXCEPT
            !.string = ParseSerialize(fix_named_entities(@)),
            !.attrs = [k \in DOMAIN @ |-> ParseSerialize(fix_named_entities(@[k]))]]]]

\* the content fix_xhtml_file writes back for a file that holds d; the steps
\* in the order of the code, each on the result of the one before
fix_xhtml_file(d) ==
    The({ FixImgs(d4, FindAll(d4, Root, "img")) :
          d4 \in { EnsureLinks(d3) :
          d3 \in { StripStyles(d2) :
          d2 \in { MoveHrs(d1, FindAll(d1, Root, "hr")) :
          d1 \in { EnsureNamespaces(corrected) :
          corrected \in { FixText(d) } } } } } })

----------------------------------------------------------------------------
(* populate_quiz_options and restructure_quiz_key *)

\* the least number of options of a quiz (the literals 4 and 5 of lines 255-256)
MinOptions == 4

\* ul.find_all('li', recursive=False)
DirectLis(d, ul) ==
    LET IsLi(m) == d.nodes[m].tag = "li"
    IN  SelectSeq(d.nodes[ul].kids, IsLi)

\* soup.find_all('ul', class_='quiz-options')
QuizLists(d) ==
    LET IsQuiz(m) == /\ "class" \in DOMAIN d.nodes[m].attrs
                     /\ "quiz-options" \in Range(d.nodes[m].attrs["class"])
    IN  SelectSeq(FindAll(d, Root, "ul"), IsQuiz)

Placeholder(i) ==
    [tag |-> "li", attrs |-> NoAttrs, kids |-> <<>>,
     string |-> <<"Placeholder option ", ToString(i)>>]

\* A slip: the numbering starts at count, not at count + 1.
RECURSIVE PadFromCount(_, _, _)
PadFromCount(d, ul, i) ==
    IF i - 1 >= MinOptions + 1 THEN d
    ELSE PadFromCount(AppendNew(d, ul, Placeholder(i - 1)), ul, i + 1)

\* lines 256-260: for i in range(i, 5)
RECURSIVE PadFrom(_, _, _)
PadFrom(d, ul, i) ==
    IF i >= MinOptions + 1 THEN d
    ELSE PadFrom(AppendNew(d, ul, Placeholder(i)), ul, i + 1)

\* lines 253-260: one list of the loop
PadList(d, ul) ==
    LET count == Len(DirectLis(d, ul))
    IN  IF count < MinOptions THEN PadFrom(d, ul, count + 1) ELSE d

RECURSIVE PadLists(_, _)
PadLists(d, uls) ==
    IF uls = <<>> THEN d ELSE PadLists(PadList(d, Head(uls)), Tail(uls))

\* the content of the file after populate_quiz_options
populate_quiz_options(d) == PadLists(d, QuizLists(d))

\* s.strip() on one string
RECURSIVE Strip(_)
Strip(s) ==
    IF s # <<>> /\ s[1] = " " THEN Strip(Tail(s))
    ELSE IF s # <<>> /\ s[Len(s)] = " " THEN Strip(SubSeq(s, 1, Len(s) - 1))
    ELSE s

\* para.get_text(strip=True)
GetText(d, n) ==
    LET order == Preorder(d, n)
    IN  Flatten([i \in 1..Len(order) |-> Strip(d.nodes[order[i]].string)])

\* para.decompose()
Decompose(d, n) ==
    LET gone == Range(Preorder(d, n))
        d1 == Extract(d, n)
    IN  [d1 EXCEPT !.nodes = [k \in (DOMAIN d1.nodes) \ gone |-> d1.nodes[k]]]

\* lines 277-282: the loop over paragraphs; ol is not attached yet, its
\* items are collected in lis
RECURSIVE CollectAnswers(_, _, _)
CollectAnswers(d, paras, lis) ==
    IF paras = <<>> THEN <<d, lis>>
    ELSE CollectAnswers(Decompose(d, Head(paras)), Tail(paras),
                        Append(lis, GetText(d, Head(paras))))

RECURSIVE AppendItems(_, _, _)
AppendItems(d, ol, lis) ==
    IF lis = <<>> THEN d
    ELSE AppendItems(
             AppendNew(d, ol, [tag |-> "li", attrs |-> NoAttrs, kids |-> <<>>,
                               string |-> Head(lis)]),
             ol, Tail(lis))

\* the content of the file after restructure_quiz_key
restructure_quiz_key(d) ==
    LET bodies == FindAll(d, Root, "body")
    IN  IF bodies = <<>> THEN d
        ELSE LET body == bodies[1]
                 IsBlock(m) == d.nodes[m].tag \in {"p", "div"}
                 paragraphs == SelectSeq(d.nodes[body].kids, IsBlock)
             IN  IF paragraphs = <<>> THEN d
                 ELSE LET r == CollectAnswers(d, paragraphs, <<>>)
                          ol == NewId(r[1])
                          d1 == AppendNew(r[1], body,
                                    [tag |-> "ol", attrs |-> NoAttrs, kids |-> <<>>,
                                     string |-> <<>>])
                      IN  AppendItems(d1, ol, r[2])

\* 'quizkey' in file_path.stem.lower()
IsQuizKey(path) == "quizkey" \in Range(Lower(PathStem(path)))

\* lines 454-457: the body of main's loop over the content files
ProcessFile(path, d) ==
    The({ IF IsQuizKey(path) THEN restructure_quiz_key(padded) ELSE padded :
          padded \in { populate_quiz_options(fixed) :
          fixed \in { fix_xhtml_file(d) } } })

----------------------------------------------------------------------------
(* Paths.  A relative path is a token string with "/" between its parts.   *)
(* The project directory is a function from the relative paths of its      *)
(* files to their contents: a document for an XHTML file, the loaded data  *)
(* for the YAML file, a token string for a text file.                      *)

\* path.name
PathName(p) == SubSeq(p, RFind(p, "/") + 1, Len(p))

\* path.with_name(n)
WithName(p, n) == SubSeq(p, 1, RFind(p, "/")) \o n

\* path.parent, with its trailing "/"; <<>> for the project root
PathDir(p) == SubSeq(p, 1, RFind(p, "/"))

\* Path.suffix and Path.stem of a name
NameSuffix(nm) ==
    LET i == RFind(nm, ".")
    IN  IF 1 < i /\ i < Len(nm) THEN SubSeq(nm, i, Len(nm)) ELSE <<>>

EndsWith(q, suffix) ==
    /\ Len(q) >= Len(suffix)
    /\ SubSeq(q, Len(q) - Len(suffix) + 1, Len(q)) = suffix

\* the tokens of paths, in the order of the strings they stand for
TokOrder ==
    << " ", "-", ".", "/", "3", "A", "FINAL", "META-INF", "PNG", "QuizKey",
       "TableOfContents", "XHTML", "_", "a", "book-map", "container", "content",
       "css", "f", "final", "fonts", "images", "item1", "jpg", "mimetype", "nav",
       "opf", "png", "quizkey", "style", "styles", "tableofcontents", "text",
       "toc", "ttf", "txt", "woff", "xhtml", "xml", "yaml" >>

TokRank(t) == CHOOSE i \in 1..Len(TokOrder) : TokOrder[i] = t

\* s < t for strings
RECURSIVE StrLess(_, _)
StrLess(s, t) ==
    IF t = <<>> THEN FALSE
    ELSE IF s = <<>> THEN TRUE
    ELSE IF s[1] = t[1] THEN StrLess(Tail(s), Tail(t))
    ELSE TokRank(s[1]) < TokRank(t[1])

\* the parts of a path
RECURSIVE PathParts(_)
PathParts(p) ==
    LET hits == {i \in 1..Len(p) : p[i] = "/"}
    IN  IF hits = {} THEN <<p>>
        ELSE LET i == CHOOSE x \in hits : \A y \in hits : x <= y
             IN  <<SubSeq(p, 1, i - 1)>> \o PathParts(SubSeq(p, i + 1, Len(p)))

RECURSIVE PartsLess(_, _)
PartsLess(a, b) ==
    IF b = <<>> THEN FALSE
    ELSE IF a = <<>> THEN TRUE
    ELSE IF a[1] = b[1] THEN PartsLess(Tail(a), Tail(b))
    ELSE StrLess(a[1], b[1])

\* p < q for paths, which compare part by part
PathLess(p, q) == PartsLess(PathParts(p), PathParts(q))

\* sorted(S) for a set of paths
RECURSIVE Sorted(_)
Sorted(S) ==
    IF S = {} THEN <<>>
    ELSE LET m == CHOOSE x \in S : \A y \in S \ {x} : PathLess(x, y)
         IN  <<m>> \o Sorted(S \ {m})

Reverse(q) == [i \in 1..Len(q) |-> q[Len(q) + 1 - i]]

\* every order of the elements of S
Orders(S) ==
    {q \in [1..Cardinality(S) -> S] : \A i, j \in 1..Cardinality(S) : q[i] = q[j] => i = j}

\* The orders in which the file system may list the entries S of a
\* directory tree: any order; for more than MaxPermuted entries the model
\* keeps two of them, the ascending and the descending one.
ListingOrders(S) ==
    IF Cardinality(S) <= MaxPermuted THEN Orders(S) ELSE {Sorted(S), Reverse(Sorted(S))}

\* the file system with path p holding content c
WriteFile(fsys, p, c) ==
    [q \in (DOMAIN fsys) \cup {p} |-> IF q = p THEN c ELSE fsys[q]]

RemoveFile(fsys, p) == [q \in (DOMAIN fsys) \ {p} |-> fsys[q]]

\* path.is_file()
IsFile(fsys, p) == p \in DOMAIN fsys

\* What a function that writes files comes to: the file system it leaves,
\* or an exception that nothing catches.
Ok(fsys) == [raised |-> FALSE, fs |-> fsys]
Raised == [raised |-> TRUE, fs |-> <<>>]

\* collect_xhtml_files: root.rglob('*.xhtml')
collect_xhtml_files(fsys) == {p \in DOMAIN fsys : EndsWith(PathName(p), <<".", "xhtml">>)}

----------------------------------------------------------------------------
(* rename_files *)

\* lines 111-117: one file of the loop; state is <<file system, mapping>>.
\* Path.rename replaces a file that is already at the new path.
RenameOne(state, p) ==
    LET fsys == state[1]
        map == state[2]
        new_name == normalize_filename(PathName(p))
        new_path == WithName(p, new_name)
    IN  IF new_name # PathName(p)
        THEN << WriteFile(RemoveFile(fsys, p), new_path, fsys[p]),
                WriteFile(map, p, new_path) >>
        ELSE state

\* line 110: the loop over the files collected before the first rename
RECURSIVE RenameLoop(_, _)
RenameLoop(state, order) ==
    IF order = <<>> THEN state
    ELSE RenameLoop(The({RenameOne(state, Head(order))}), Tail(order))

\* rename_files with the files listed in that order: <<file system, mapping>>
rename_files(fsys, order) == RenameLoop(<<fsys, <<>> >>, order)

----------------------------------------------------------------------------
(* update_references_in_yaml.  Loaded YAML data is a tagged value:         *)
(* [t |-> "dict", v |-> key -> value], [t |-> "list", v |-> <<values>>],   *)
(* [t |-> "str", v |-> string], [t |-> "int", v |-> number].               *)
(* yaml.dump followed by yaml.safe_load gives such data back as it was.    *)

YDict(f) == [t |-> "dict", v |-> f]
YList(q) == [t |-> "list", v |-> q]
YStr(x) == [t |-> "str", v |-> x]
YInt(i) == [t |-> "int", v |-> i]

\* mapping.get(key, default)
Get(map, key, default) == IF key \in DOMAIN map THEN map[key] ELSE default

\* line 135: a string leaf
ReplaceLeaf(map, x) == Get(map, x, x)

\* lines 129-137
RECURSIVE replace_in_obj(_, _)
replace_in_obj(map, obj) ==
    CASE obj.t = "dict" -> YDict([k \in DOMAIN obj.v |-> replace_in_obj(map, obj.v[k])])
      [] obj.t = "list" -> YList([i \in 1..Len(obj.v) |-> replace_in_obj(map, obj.v[i])])
      [] obj.t = "str" -> YStr(ReplaceLeaf(map, obj.v))
      [] OTHER -> obj

\* lines 126-141: open() raises FileNotFoundError for a missing file
LoadReplaceDump(fsys, yaml_path, map) ==
    IF ~IsFile(fsys, yaml_path) THEN Raised
    ELSE Ok(WriteFile(fsys, yaml_path,
                      [yaml |-> replace_in_obj(map, fsys[yaml_path].yaml)]))

\* update_references_in_yaml without the test of line 123
UpdateYamlUnguarded(fsys, yaml_path, map) == LoadReplaceDump(fsys, yaml_path, map)

\* update_references_in_yaml(yaml_path, mapping)
update_references_in_yaml(fsys, yaml_path, map) ==
    IF ~IsFile(fsys, yaml_path) THEN Ok(fsys)
    ELSE LoadReplaceDump(fsys, yaml_path, map)

----------------------------------------------------------------------------
(* update_toc *)

\* lines 152-158: one anchor of the loop
UpdateAnchor(d, map, a) ==
    IF "href" \in DOMAIN d.nodes[a].attrs /\ d.nodes[a].attrs["href"] \in DOMAIN map
    THEN [d EXCEPT !.nodes[a].attrs["href"] = map[@]]
    ELSE d

RECURSIVE UpdateAnchors(_, _, _)
UpdateAnchors(d, map, as) ==
    IF as = <<>> THEN d
    ELSE UpdateAnchors(The({UpdateAnchor(d, map, Head(as))}), map, Tail(as))

\* BeautifulSoup(text, 'lxml') followed by str(soup) on a whole document
ReparseDoc(d) ==
    [d EXCEPT !.nodes = [n \in DOMAIN d.nodes |->
        [d.nodes[n] EXCEPT
            !.string = ParseSerialize(@),
            !.attrs = [k \in DOMAIN @ |-> ParseSerialize(@[k])]]]]

\* lines 149-161: read_text() raises FileNotFoundError for a missing file;
\* the file is written only when a link changed
RewriteToc(fsys, toc_path, map) ==
    IF ~IsFile(fsys, toc_path) THEN Raised
    ELSE LET soup == fsys[toc_path]
             updated == UpdateAnchors(soup, map, FindAll(soup, Root, "a"))
         IN  IF updated # soup
             THEN Ok(WriteFile(fsys, toc_path, ReparseDoc(updated)))
             ELSE Ok(fsys)

\* update_toc(toc_path, mapping)
update_toc(fsys, toc_path, map) ==
    IF ~IsFile(fsys, toc_path) THEN Ok(fsys)
    ELSE RewriteToc(fsys, toc_path, map)

----------------------------------------------------------------------------
(* build_content_opf *)

YamlPath == <<"book-map", ".", "yaml">>
OpfPath == <<"content", ".", "opf">>
MimetypePath == <<"mimetype">>
ContainerPath == <<"META-INF", "/", "container", ".", "xml">>

\* f"urn:uuid:{uuid.uuid4()}": the value drawn is of no concern here
FreshUuid == <<"urn:uuid:", "uuid4">>

\* str(value) of loaded YAML data
StrOf(val) == IF val.t = "int" THEN <<ToString(val.v)>> ELSE val.v

\* bool(value)
Truthy(val) ==
    CASE val.t = "int" -> val.v # 0
      [] val.t = "dict" -> DOMAIN val.v # {}
      [] OTHER -> val.v # <<>>

\* ', '.join(subjects)
RECURSIVE Join(_)
Join(q) ==
    IF q = <<>> THEN <<>>
    ELSE IF Len(q) = 1 THEN StrOf(q[1])
    ELSE StrOf(q[1]) \o <<", ">> \o Join(Tail(q))

\* lines 290-316
Metadata(fsys, yaml_path) ==
    IF IsFile(fsys, yaml_path)
    THEN LET data == fsys[yaml_path].yaml
             book_data == Get(data.v, "book", YDict(<<>>))
             identifier_data == Get(book_data.v, "identifier", YDict(<<>>))
             subjects == Get(book_data.v, "subject", YList(<<>>))
         IN  [title |-> StrOf(Get(book_data.v, "title", YStr(<<"Untitled Book">>))),
              creator |-> StrOf(Get(book_data.v, "author", YStr(<<"Unknown Author">>))),
              language |-> StrOf(Get(book_data.v, "language", YStr(<<"en">>))),
              identifier |->
                  IF identifier_data.t = "dict"
                  THEN StrOf(Get(identifier_data.v, "text", YStr(FreshUuid)))
                  ELSE IF Truthy(identifier_data) THEN StrOf(identifier_data)
                  ELSE FreshUuid,
              subject |->
                  IF subjects.t = "list" THEN Join(subjects.v)
                  ELSE IF Truthy(subjects) THEN StrOf(subjects) ELSE <<>>,
              rights |-> StrOf(Get(book_data.v, "rights", YStr(<<>>)))]
    ELSE [title |-> <<"Untitled Book">>, creator |-> <<"Unknown Author">>,
          language |-> <<"en">>, identifier |-> FreshUuid,
          subject |-> <<>>, rights |-> <<>>]

Item(id, href, media) == [id |-> id, href |-> href, media |-> media]

\* the files directly in directory dir ("styles", "images", "fonts")
FilesIn(fsys, dir) ==
    {p \in DOMAIN fsys : Len(p) > 2 /\ PathDir(p) = <<dir, "/">>}

\* re.sub(r'[^a-zA-Z0-9]', '_', stem)
AlnumId(stem) ==
    [i \in 1..Len(stem) |-> IF stem[i] \in {" ", "-", ".", "_"} THEN "_" ELSE stem[i]]

image_mime_map ==
    [jpg |-> <<"image/jpeg">>, jpeg |-> <<"image/jpeg">>, png |-> <<"image/png">>,
     gif |-> <<"image/gif">>, svg |-> <<"image/svg+xml">>]

font_mime_map ==
    [ttf |-> <<"font/ttf">>, otf |-> <<"font/otf">>, woff |-> <<"font/woff">>,
     woff2 |-> <<"font/woff2">>]

\* suffix.lower() is "." and a key of mime_map
KnownSuffix(p, mime_map) ==
    LET suffix == Lower(NameSuffix(PathName(p)))
    IN  Len(suffix) = 2 /\ suffix[2] \in DOMAIN mime_map

\* lines 320-326: the manifest items of the content files, sorted
XhtmlItems(fsys) ==
    LET files == Sorted(collect_xhtml_files(fsys))
    IN  [i \in 1..Len(files) |->
            Item(<<"item" \o ToString(i)>>, files[i], <<"application/xhtml+xml">>)]

\* lines 329-333: css_file.stem is the id
StyleItems(order) ==
    LET IsCss(p) == EndsWith(PathName(p), <<".", "css">>)
        css == SelectSeq(order, IsCss)
    IN  [i \in 1..Len(css) |-> Item(PathStem(css[i]), css[i], <<"text/css">>)]

\* lines 336-349 and 352-363
AssetItems(order, mime_map) ==
    LET Known(p) == KnownSuffix(p, mime_map)
        kept == SelectSeq(order, Known)
    IN  [i \in 1..Len(kept) |->
            Item(AlnumId(PathStem(kept[i])), kept[i],
                 mime_map[Lower(NameSuffix(PathName(kept[i])))[2]])]

\* line 378: the item the template adds after manifest_items
NavItem == Item(<<"nav">>, <<"3", "-", "TableOfContents", ".", "xhtml">>,
                <<"application/xhtml+xml">>)

\* the content of content.opf, the directories listed in these orders
OpfContent(fsys, yaml_path, styles, images, fonts) ==
    LET xhtml == XhtmlItems(fsys)
    IN  [metadata |-> Metadata(fsys, yaml_path),
         manifest |-> xhtml \o StyleItems(styles) \o AssetItems(images, image_mime_map)
                         \o AssetItems(fonts, font_mime_map) \o <<NavItem>>,
         spine |-> [i \in 1..Len(xhtml) |-> xhtml[i].id]]

\* build_content_opf(root, yaml_path, opf_path)
build_content_opf(fsys, yaml_path, opf_path, styles, images, fonts) ==
    Ok(WriteFile(fsys, opf_path, OpfContent(fsys, yaml_path, styles, images, fonts)))

----------------------------------------------------------------------------
(* create_epub and run_epubcheck *)

Entry(nm, compress_type, payload) ==
    [name |-> nm, compress_type |-> compress_type, payload |-> payload]

\* lines 400-410: the two files made before the archive
Bootstrap(fsys, opf_path) ==
    LET fs1 == IF MimetypePath \in DOMAIN fsys THEN fsys
               ELSE WriteFile(fsys, MimetypePath, <<"application/epub+zip">>)
    IN  WriteFile(fs1, ContainerPath, [rootfile |-> opf_path])

\* The orders of os.walk(root): the files of the root directory first, then
\* directory by directory.
WalkOrders(fsys) ==
    LET top == {p \in DOMAIN fsys : RFind(p, "/") = 0}
        below == (DOMAIN fsys) \ top
        Grouped(q) == \A i, j, k \in 1..Len(q) :
                          (i < j /\ j < k /\ PathDir(q[i]) = PathDir(q[k]))
                              => PathDir(q[j]) = PathDir(q[i])
    IN  {r \o d : r \in ListingOrders(top), d \in {q \in ListingOrders(below) : Grouped(q)}}

\* run_epubcheck: what it reports; subprocess.run raises FileNotFoundError
\* when there is no java to run the JAR
run_epubcheck(jar, java, returncode) ==
    IF ~jar THEN "skipped"
    ELSE IF ~java THEN "FileNotFoundError"
    ELSE IF returncode # 0 THEN "found errors"
    ELSE "no critical errors"

\* lines 411-419: the entries written to the archive
Archive(fsys, walk) ==
    LET NotMimetype(p) == p # MimetypePath
        rest == SelectSeq(walk, NotMimetype)
    IN  <<Entry(<<"mimetype">>, "ZIP_STORED", fsys[MimetypePath])>>
            \o [i \in 1..Len(rest) |-> Entry(rest[i], "ZIP_DEFLATED", fsys[rest[i]])]

----------------------------------------------------------------------------
(* Inputs of the normalizer *)

StemTokens == {"a", "A", " ", "-", "_", "final", "FINAL"}

Extensions == {<<>>, <<".", "xhtml">>, <<".", "XHTML">>}

SeqsUpTo(S, n) == UNION {[1..k -> S] : k \in 0..n}

NormalizerInputs == {s \o e : s \in SeqsUpTo(StemTokens, MaxStem), e \in Extensions}

----------------------------------------------------------------------------
(* The normalizer applied once, then to its own result *)

InitNormalize ==
    /\ pc = "nf_start"
    /\ name \in NormalizerInputs
    /\ once = <<>>
    /\ twice = <<>>
    /\ IdleEntities /\ IdleDoc /\ IdleProject

NormalizeOnce ==
    /\ pc = "nf_start"
    /\ once' = normalize_filename(name)
    /\ pc' = "nf_once"
    /\ UNCHANGED <<name, twice, entvars, docvars, projvars>>

NormalizeTwice ==
    /\ pc = "nf_once"
    /\ twice' = normalize_filename(once)
    /\ pc' = "nf_twice"
    /\ UNCHANGED <<name, once, entvars, docvars, projvars>>

NextNormalize == NormalizeOnce \/ NormalizeTwice

SpecNormalize == InitNormalize /\ [][NextNormalize]_vars

\* C1: normalize_filename is idempotent: normalizing the result of a
\* normalization gives that result again.
C1_Idempotent == pc = "nf_twice" => twice = once

----------------------------------------------------------------------------
(* fix_named_entities applied to a text *)

\* the pieces a text about entries i and j is made of
Pieces(i, j) ==
    { <<"&">>, <<";">>, <<"a">>, <<replacements[i][1]>>,
      Named(i), Numeric(i), Named(j), Numeric(j) }

NextEntry(i) == (i % Len(replacements)) + 1

EntityInputs ==
    UNION { {Flatten(ps) : ps \in SeqsUpTo(Pieces(i, NextEntry(i)), MaxPieces)} :
            i \in 1..Len(replacements) }

InitEntities ==
    /\ pc = "ent_start"
    /\ text \in EntityInputs
    /\ fixedText = <<>>
    /\ IdleNormalizer /\ IdleDoc /\ IdleProject

FixNamedEntities ==
    /\ pc = "ent_start"
    /\ fixedText' = fix_named_entities(text)
    /\ pc' = "ent_fixed"
    /\ UNCHANGED <<text, nfvars, docvars, projvars>>

SpecEntities == InitEntities /\ [][FixNamedEntities]_vars

\* the number of occurrences of pat in s
Count(s, pat) ==
    Cardinality({i \in 1..(Len(s) - Len(pat) + 1) : SubSeq(s, i, i + Len(pat) - 1) = pat})

\* C7: the output of fix_named_entities holds no named entity of the table,
\* and each numeric form occurs as often as the named and the numeric form
\* together occurred in the input.
C7_EntitiesReplaced ==
    pc = "ent_fixed" =>
        \A k \in 1..Len(replacements) :
            /\ Count(fixedText, Named(k)) = 0
            /\ Count(fixedText, Numeric(k)) = Count(text, Named(k)) + Count(text, Numeric(k))

\* C7 witness: a text with two occurrences of a named entity and one of
\* another entry's numeric form has been fixed.
C7_Witness ==
    /\ pc = "ent_fixed"
    /\ \E k \in 1..Len(replacements) :
          /\ Count(text, Named(k)) = 2
          /\ Count(text, Numeric(NextEntry(k))) = 1
          /\ Count(fixedText, Numeric(k)) = 2

----------------------------------------------------------------------------
(* Documents given to fix_xhtml_file: html > (head), body, and below body  *)
(* up to MaxFree elements (lists, items, blocks, rules).                   *)

HtmlId == 2
HeadId == 3
BodyId == 4

Elem(tag, attrs, kids, string) ==
    [tag |-> tag, attrs |-> attrs, kids |-> kids, string |-> string]

FreeTags == {"ul", "ol", "li", "div", "hr"}

\* the children of p, in the order of their ids
RECURSIVE Ascending(_)
Ascending(S) ==
    IF S = {} THEN <<>>
    ELSE LET m == CHOOSE x \in S : \A y \in S : x <= y
         IN  <<m>> \o Ascending(S \ {m})

\* what surrounds the elements below body: the attributes of html, the
\* head and its links, a style attribute, an entity, an image
Profiles == 1..3

MakeDoc(k, par, tags, profile) ==
    LET free == 5..(4 + k)
        KidsOf(p) == Ascending({n \in free : par[n] = p})
        img == 5 + k
        withHead == profile \in {2, 3}
    IN  [nodes |->
          [n \in (({1, HtmlId, BodyId} \cup free)
                  \cup (IF withHead THEN {HeadId} ELSE {})
                  \cup (IF profile = 2 THEN {img} ELSE {})) |->
            CASE n = 1 -> Elem("[document]", NoAttrs, <<HtmlId>>, <<>>)
              [] n = HtmlId ->
                    Elem("html",
                         IF profile = 3 THEN [xmlns |-> <<"http://www.w3.org/1999/xhtml">>]
                         ELSE NoAttrs,
                         IF withHead THEN <<HeadId, BodyId>> ELSE <<BodyId>>, <<>>)
              [] n = HeadId /\ withHead -> Elem("head", NoAttrs, <<>>, <<>>)
              [] n = BodyId ->
                    Elem("body",
                         IF profile = 3 THEN [style |-> <<"margin:0">>] ELSE NoAttrs,
                         KidsOf(BodyId) \o (IF profile = 2 THEN <<img>> ELSE <<>>),
                         IF profile = 3 THEN <<"a">> \o Named(6) ELSE <<>>)
              [] n = img /\ profile = 2 ->
                    Elem("img", [src |-> <<"A", " ", "a", "_", "FINAL", ".", "PNG">>],
                         <<>>, <<>>)
              [] OTHER -> Elem(tags[n], NoAttrs, KidsOf(n), <<>>)]]

\* the parent of each element below body: body or an earlier element
ParentMaps(k) == {f \in [5..(4 + k) -> 4..(4 + k)] : \A n \in 5..(4 + k) : f[n] < n}

\* an hr has no children
TagMaps(k, par) ==
    {t \in [5..(4 + k) -> FreeTags] :
        \A n \in 5..(4 + k) : par[n] # BodyId => t[par[n]] # "hr"}

InitXhtml ==
    /\ pc = "file_start"
    /\ \E k \in 0..MaxFree : \E par \in ParentMaps(k) :
           \E tags \in TagMaps(k, par) : \E profile \in Profiles :
               doc = MakeDoc(k, par, tags, profile)
    /\ runs = 0
    /\ IdleNormalizer /\ IdleEntities /\ IdleProject

FixXhtmlFile ==
    /\ pc = "file_start"
    /\ doc' = fix_xhtml_file(doc)
    /\ pc' = "file_fixed"
    /\ UNCHANGED <<runs, nfvars, entvars, projvars>>

SpecXhtml == InitXhtml /\ [][FixXhtmlFile]_vars

Hrs(d) == Range(FindAll(d, Root, "hr"))

\* C3: after fix_xhtml_file no hr has a ul, ol or li among its ancestors.
C3_NoHrInList ==
    pc = "file_fixed" =>
        \A hr \in Hrs(doc) :
            \A a \in Ancestors(doc, hr) : doc.nodes[a].tag \notin ListTags

\* n comes after m in document order
After(d, n, m) ==
    LET order == Preorder(d, Root)
    IN  IndexOf(order, n) > IndexOf(order, m)

\* C4: an hr inside a ul that is a direct child of body (in the ul itself
\* or in one of its li children) is, after fix_xhtml_file, a sibling of
\* that ul and comes after it.
C4_HrSiblingAfterList ==
    [][ pc = "file_start" /\ pc' = "file_fixed" =>
          \A ul \in DOMAIN doc.nodes : \A hr \in Hrs(doc) :
              ( /\ doc.nodes[ul].tag = "ul"
                /\ Parent(doc, ul) = BodyId
                /\ \/ Parent(doc, hr) = ul
                   \/ /\ Parent(doc, Parent(doc, hr)) = ul
                      /\ doc.nodes[Parent(doc, hr)].tag = "li" )
              => /\ Parent(doc', hr) = Parent(doc', ul)
                 /\ After(doc', hr, ul) ]_vars

----------------------------------------------------------------------------
(* Documents given to populate_quiz_options: body > ul with n items, a     *)
(* block among them, and in the first item a nested list with m items.     *)

ClassValues == { <<"quiz-options">>, <<"quiz", "quiz-options">>, <<"other">> }

ClassAttr(c) == IF c = <<>> THEN NoAttrs ELSE [class |-> c]

MakeQuizDoc(n, cls, block, m, nestedCls) ==
    LET ul == 5
        lis == [i \in 1..n |-> 5 + i]
        div == 6 + n
        nested == 7 + n
        nestedLis == [i \in 1..m |-> 7 + n + i]
        hasNested == n >= 1 /\ nestedCls # <<"none">>
    IN  [nodes |->
          [k \in (({1, HtmlId, BodyId, ul} \cup Range(lis))
                  \cup (IF block THEN {div} ELSE {})
                  \cup (IF hasNested THEN {nested} \cup Range(nestedLis) ELSE {})) |->
            CASE k = 1 -> Elem("[document]", NoAttrs, <<HtmlId>>, <<>>)
              [] k = HtmlId -> Elem("html", NoAttrs, <<BodyId>>, <<>>)
              [] k = BodyId -> Elem("body", NoAttrs, <<ul>>, <<>>)
              [] k = ul ->
                    Elem("ul", ClassAttr(cls),
                         (IF n >= 1 THEN <<lis[1]>> ELSE <<>>)
                             \o (IF block THEN <<div>> ELSE <<>>)
                             \o SubSeq(lis, 2, n),
                         <<>>)
              [] k = div /\ block -> Elem("div", NoAttrs, <<>>, <<"a">>)
              [] k = nested /\ hasNested -> Elem("ul", ClassAttr(nestedCls), nestedLis, <<>>)
              [] k = 6 /\ hasNested -> Elem("li", NoAttrs, <<nested>>, <<"a">>)
              [] OTHER -> Elem("li", NoAttrs, <<>>, <<"a">>)]]

InitQuiz ==
    /\ pc = "quiz"
    /\ \E n \in 0..MaxOptions : \E cls \in ClassValues \cup {<<>>} :
           \E block \in BOOLEAN : \E m \in 0..MaxNested :
               \E nestedCls \in ClassValues \cup {<<>>, <<"none">>} :
                   doc = MakeQuizDoc(n, cls, block, m, nestedCls)
    /\ runs = 0
    /\ IdleNormalizer /\ IdleEntities /\ IdleProject

\* one run of populate_quiz_options over the file
PopulateQuizOptions ==
    /\ pc = "quiz"
    /\ runs < MaxRuns
    /\ doc' = populate_quiz_options(doc)
    /\ runs' = runs + 1
    /\ UNCHANGED <<pc, nfvars, entvars, projvars>>

SpecQuiz == InitQuiz /\ [][PopulateQuizOptions]_vars

PlaceholderLabel(i) == <<"Placeholder option ", ToString(i)>>

\* C8: a quiz-options list with n direct li children has max(n, 4) of them
\* after populate_quiz_options: the n it had, unchanged and in their order,
\* then new items labeled "Placeholder option i" for i = n+1 .. 4, appended
\* to the list; a second run changes nothing.
C8_QuizPadded ==
    [][ runs' = runs + 1 =>
          /\ \A ul \in Range(QuizLists(doc)) :
                LET before == DirectLis(doc, ul)
                    after == DirectLis(doc', ul)
                    n == Len(before)
                IN  /\ Len(after) = IF n > 4 THEN n ELSE 4
                    /\ SubSeq(after, 1, n) = before
                    /\ \A i \in 1..n : doc'.nodes[before[i]] = doc.nodes[before[i]]
                    /\ \A i \in (n + 1)..Len(after) :
                          /\ after[i] \notin DOMAIN doc.nodes
                          /\ doc'.nodes[after[i]].string = PlaceholderLabel(i)
                    /\ doc'.nodes[ul].kids =
                          doc.nodes[ul].kids \o SubSeq(after, n + 1, Len(after))
          /\ runs = 1 => doc' = doc ]_vars

\* C8 witness: after a run, a quiz list holds its two items and then the
\* placeholders 3 and 4.
C8_Witness ==
    /\ pc = "quiz" /\ runs = 1
    /\ \E ul \in Range(QuizLists(doc)) :
          LET lis == DirectLis(doc, ul)
          IN  /\ Len(lis) = 4
              /\ doc.nodes[lis[1]].string = <<"a">>
              /\ doc.nodes[lis[2]].string = <<"a">>
              /\ doc.nodes[lis[3]].string = PlaceholderLabel(3)
              /\ doc.nodes[lis[4]].string = PlaceholderLabel(4)

----------------------------------------------------------------------------
(* main: the stages of the pipeline, one action each *)

\* line 450
RenameFiles ==
    /\ pc = "rename"
    /\ \E order \in ListingOrders(collect_xhtml_files(fs)) :
          /\ fs' = rename_files(fs, order)[1]
          /\ mapping' = rename_files(fs, order)[2]
    /\ pc' = "yaml"
    /\ UNCHANGED <<fs0, tocArg, epub, validation, nfvars, entvars, docvars>>

\* a stage that writes files: on an exception main ends there
Stage(result, next) ==
    IF result.raised
    THEN fs' = fs /\ pc' = "failed"
    ELSE fs' = result.fs /\ pc' = next

\* line 451
UpdateReferencesInYaml ==
    /\ pc = "yaml"
    /\ Stage(update_references_in_yaml(fs, YamlPath, mapping), "toc")
    /\ UNCHANGED <<fs0, tocArg, mapping, epub, validation, nfvars, entvars, docvars>>

\* line 452: toc_path was made from args.toc before the files were renamed
UpdateToc ==
    /\ pc = "toc"
    /\ Stage(update_toc(fs, tocArg, mapping), "files")
    /\ UNCHANGED <<fs0, tocArg, mapping, epub, validation, nfvars, entvars, docvars>>

\* lines 453-457: every content file is read, processed and written back
ProcessFiles ==
    /\ pc = "files"
    /\ fs' = [p \in DOMAIN fs |->
                IF p \in collect_xhtml_files(fs) THEN ProcessFile(p, fs[p]) ELSE fs[p]]
    /\ pc' = "opf"
    /\ UNCHANGED <<fs0, tocArg, mapping, epub, validation, nfvars, entvars, docvars>>

\* lines 458-459
BuildContentOpf ==
    /\ pc = "opf"
    /\ \E styles \in ListingOrders(FilesIn(fs, "styles")) :
       \E images \in ListingOrders(FilesIn(fs, "images")) :
       \E fonts \in ListingOrders(FilesIn(fs, "fonts")) :
           Stage(build_content_opf(fs, YamlPath, OpfPath, styles, images, fonts), "epub")
    /\ UNCHANGED <<fs0, tocArg, mapping, epub, validation, nfvars, entvars, docvars>>

\* lines 460-461: the archive is written outside the project directory
CreateEpub ==
    /\ pc = "epub"
    /\ fs' = Bootstrap(fs, OpfPath)
    /\ \E walk \in WalkOrders(fs') : epub' = <<Archive(fs', walk)>>
    /\ pc' = "check"
    /\ UNCHANGED <<fs0, tocArg, mapping, validation, nfvars, entvars, docvars>>

\* line 462: the JAR may be missing; the validator exits with 0 or not
RunEpubcheck ==
    /\ pc = "check"
    /\ \E jar \in BOOLEAN : \E java \in BOOLEAN : \E returncode \in {0, 1} :
          validation' = run_epubcheck(jar, java, returncode)
    /\ pc' = IF validation' = "FileNotFoundError" THEN "failed" ELSE "done"
    /\ UNCHANGED <<fs, fs0, tocArg, mapping, epub, nfvars, entvars, docvars>>

Next ==
    \/ RenameFiles
    \/ UpdateReferencesInYaml
    \/ UpdateToc
    \/ ProcessFiles
    \/ BuildContentOpf
    \/ CreateEpub
    \/ RunEpubcheck

----------------------------------------------------------------------------
(* Projects given to main *)

DefaultToc == <<"3", "-", "TableOfContents", ".", "xhtml">>

ContentNames ==
    { <<"A", "_", "FINAL", ".", "xhtml">>,
      <<"a", ".", "xhtml">>,
      <<"a", "_", "final", "_", "final", ".", "xhtml">>,
      <<"a", "_", "final", ".", "xhtml">>,
      <<"text", "/", "A", " ", "a", ".", "xhtml">>,
      <<"QuizKey", ".", "xhtml">> }

\* a content document: a rule in a list, a quiz list of two, an entity
ContentDoc ==
    [nodes |->
      [n \in 1..10 |->
        CASE n = 1 -> Elem("[document]", NoAttrs, <<HtmlId>>, <<>>)
          [] n = HtmlId -> Elem("html", NoAttrs, <<HeadId, BodyId>>, <<>>)
          [] n = HeadId -> Elem("head", NoAttrs, <<>>, <<>>)
          [] n = BodyId -> Elem("body", NoAttrs, <<5, 6, 8>>, <<>>)
          [] n = 5 -> Elem("p", [style |-> <<"margin:0">>], <<>>, <<"a">> \o Named(6))
          [] n = 6 -> Elem("ul", NoAttrs, <<7>>, <<>>)
          [] n = 7 -> Elem("hr", NoAttrs, <<>>, <<>>)
          [] n = 8 -> Elem("ul", ClassAttr(<<"quiz-options">>), <<9, 10>>, <<>>)
          [] OTHER -> Elem("li", NoAttrs, <<>>, <<"a">>)]]

\* a table of contents with a link to href and a link out of the book
TocDoc(href) ==
    [nodes |->
      [n \in 1..6 |->
        CASE n = 1 -> Elem("[document]", NoAttrs, <<HtmlId>>, <<>>)
          [] n = HtmlId -> Elem("html", NoAttrs, <<HeadId, BodyId>>, <<>>)
          [] n = HeadId -> Elem("head", NoAttrs, <<>>, <<>>)
          [] n = BodyId -> Elem("body", NoAttrs, <<5, 6>>, <<>>)
          [] n = 5 -> Elem("a", [href |-> href], <<>>, <<"a">>)
          [] OTHER -> Elem("a", [href |-> <<"http://example.org/">>], <<>>, <<"a">>)]]

\* a book map with one file reference among its leaves
BookMap(leaf) ==
    [yaml |->
      YDict([book |->
        YDict([title |-> YStr(<<"a">>),
               subject |-> YList(<<YStr(<<"a">>), YStr(<<"A">>)>>),
               chapters |-> YList(<<YDict([file |-> YStr(leaf)]), YInt(3)>>)])])]

StyleSheet == <<"styles", "/", "style", ".", "css">>

\* the paths a reference may hold: a file's name, a normalized name, another
References(files) ==
    files \cup {WithName(f, normalize_filename(PathName(f))) : f \in files}
          \cup {<<"a", ".", "xhtml">>}

Project(files, toc, tocHref, yamlLeaf) ==
    [p \in (files \cup {StyleSheet} \cup toc
              \cup (IF yamlLeaf = <<>> THEN {} ELSE {YamlPath})) |->
        CASE p = StyleSheet -> <<"css">>
          [] p = YamlPath -> BookMap(yamlLeaf)
          [] p \in toc -> TocDoc(tocHref)
          [] OTHER -> ContentDoc]

Init ==
    /\ pc = "rename"
    /\ \E files \in {S \in SUBSET ContentNames : Cardinality(S) <= MaxFiles} :
       \E arg \in {DefaultToc, <<"toc", ".", "xhtml">>} :
       \E toc \in {{}, {arg}} :
       \E tocHref \in References(files) :
       \E yamlLeaf \in References(files) \cup {<<>>} :
           /\ fs = Project(files, toc, tocHref, yamlLeaf)
           /\ tocArg = arg
    /\ fs0 = fs
    /\ mapping = <<>>
    /\ epub = <<>>
    /\ validation = "none"
    /\ IdleNormalizer /\ IdleEntities /\ IdleDoc

Spec == Init /\ [][Next]_vars

----------------------------------------------------------------------------
(* build_content_opf over the files of a project *)

OpfContentNames == { <<"a", ".", "xhtml">>, <<"text", "/", "a", ".", "xhtml">> }

OpfStyleNames ==
    { <<"styles", "/", "style", ".", "css">>, <<"styles", "/", "nav", ".", "css">>,
      <<"styles", "/", "item1", ".", "css">>, <<"styles", "/", "a", ".", "txt">> }

OpfImageNames ==
    { <<"images", "/", "a", "-", "a", ".", "png">>,
      <<"images", "/", "a", "_", "a", ".", "png">>,
      <<"images", "/", "a", ".", "jpg">>, <<"images", "/", "a", ".", "txt">> }

OpfFontNames == { <<"fonts", "/", "a", ".", "ttf">>, <<"fonts", "/", "f", ".", "woff">> }

UpTo(S, n) == {T \in SUBSET S : Cardinality(T) <= n}

\* a short content document
PlainDoc ==
    [nodes |->
      [n \in 1..4 |->
        CASE n = 1 -> Elem("[document]", NoAttrs, <<HtmlId>>, <<>>)
          [] n = HtmlId -> Elem("html", NoAttrs, <<HeadId, BodyId>>, <<>>)
          [] n = HeadId -> Elem("head", NoAttrs, <<>>, <<>>)
          [] OTHER -> Elem("body", NoAttrs, <<>>, <<"a">>)]]

AssetProject(content, assets, withYaml) ==
    [p \in (content \cup assets \cup (IF withYaml THEN {YamlPath} ELSE {})) |->
        CASE p = YamlPath -> BookMap(<<"a", ".", "xhtml">>)
          [] p \in content -> PlainDoc
          [] OTHER -> <<"data">>]

InitOpf ==
    /\ pc = "opf"
    /\ \E content \in UpTo(OpfContentNames, MaxAssets) :
       \E styles \in UpTo(OpfStyleNames, MaxAssets) :
       \E images \in UpTo(OpfImageNames, MaxAssets) :
       \E fonts \in UpTo(OpfFontNames, MaxAssets) :
       \E withYaml \in BOOLEAN :
           fs = AssetProject(content, styles \cup images \cup fonts, withYaml)
    /\ fs0 = fs
    /\ tocArg = DefaultToc
    /\ mapping = <<>>
    /\ epub = <<>>
    /\ validation = "none"
    /\ IdleNormalizer /\ IdleEntities /\ IdleDoc

SpecOpf == InitOpf /\ [][BuildContentOpf]_vars

\* C2: the manifest build_content_opf writes has no two items with the same
\* id, whatever files are on disk.
C2_UniqueIds ==
    pc = "epub" =>
        LET manifest == fs[OpfPath].manifest
        IN  \A i, j \in 1..Len(manifest) : manifest[i].id = manifest[j].id => i = j

----------------------------------------------------------------------------
(* create_epub over the files of a project *)

EpubExtraNames ==
    { <<"text", "/", "mimetype">>, <<"styles", "/", "style", ".", "css">>,
      ContainerPath, <<"images", "/", "a", ".", "png">> }

MimetypeContents ==
    { <<"application/epub+zip">>, <<"application/epub+zip", "\n">>, <<"text/plain">> }

EpubProject(extras, mimetype) ==
    [p \in ({OpfPath, <<"a", ".", "xhtml">>} \cup extras
              \cup (IF mimetype = <<>> THEN {} ELSE {MimetypePath})) |->
        CASE p = MimetypePath -> mimetype
          [] p = <<"a", ".", "xhtml">> -> PlainDoc
          [] OTHER -> <<"data">>]

InitEpub ==
    /\ pc = "epub"
    /\ \E extras \in SUBSET EpubExtraNames :
       \E mimetype \in MimetypeContents \cup {<<>>} :
           fs = EpubProject(extras, mimetype)
    /\ fs0 = fs
    /\ tocArg = DefaultToc
    /\ mapping = <<>>
    /\ epub = <<>>
    /\ validation = "none"
    /\ IdleNormalizer /\ IdleEntities /\ IdleDoc

SpecEpub == InitEpub /\ [][CreateEpub]_vars

\* C6: whatever the project held (no mimetype file, or one with any
\* content), entry 0 of the archive is named mimetype, is stored without
\* compression and holds exactly application/epub+zip, and no later entry
\* is named mimetype.
C6_MimetypeFirst ==
    pc = "check" =>
        LET entries == epub[1]
        IN  /\ entries[1] = Entry(<<"mimetype">>, "ZIP_STORED", <<"application/epub+zip">>)
            /\ \A i \in 2..Len(entries) : entries[i].name # <<"mimetype">>

----------------------------------------------------------------------------
(* Claims about a run of main *)

\* the keys of a dict in the one order both traversals use
KeyOrder(S) == CHOOSE q \in Orders(S) : TRUE

\* the string leaves of loaded YAML data, in the order of the traversal
RECURSIVE StrLeaves(_)
StrLeaves(obj) ==
    CASE obj.t = "dict" ->
            Flatten([i \in 1..Cardinality(DOMAIN obj.v) |->
                        StrLeaves(obj.v[KeyOrder(DOMAIN obj.v)[i]])])
      [] obj.t = "list" -> Flatten([i \in 1..Len(obj.v) |-> StrLeaves(obj.v[i])])
      [] obj.t = "str" -> <<obj.v>>
      [] OTHER -> <<>>

MapValues(map) == {map[k] : k \in DOMAIN map}

\* C5: update_references_in_yaml changes a string leaf only when the leaf
\* is a key of the mapping rename_files returned, and leaves a leaf that is
\* a value of the mapping as it is.
C5_OnlyKeysReplaced ==
    [][ (pc = "yaml" /\ IsFile(fs, YamlPath)) =>
          LET before == StrLeaves(fs[YamlPath].yaml)
              after == StrLeaves(fs'[YamlPath].yaml)
          IN  /\ Len(after) = Len(before)
              /\ \A i \in 1..Len(before) :
                    /\ after[i] # before[i] => before[i] \in DOMAIN mapping
                    /\ before[i] \in MapValues(mapping) => after[i] = before[i] ]_vars

\* where the file main found at path p is after rename_files
Renamed(p) == IF p \in DOMAIN mapping THEN mapping[p] ELSE p

\* C9: when the table of contents is at the configured path before the run,
\* each of its anchors whose href is a key of the mapping holds the mapped
\* path once the Reference Mapper stage is over, also when the table of
\* contents itself was renamed.
C9_TocLinksMapped ==
    (pc = "files" /\ IsFile(fs0, tocArg)) =>
        \A a \in Range(FindAll(fs0[tocArg], Root, "a")) :
            LET href == fs0[tocArg].nodes[a].attrs["href"]
            IN  href \in DOMAIN mapping =>
                    fs[Renamed(tocArg)].nodes[a].attrs["href"] = mapping[href]

StageAfter(stage) ==
    CASE stage = "rename" -> "yaml" [] stage = "yaml" -> "toc"
      [] stage = "toc" -> "files" [] stage = "files" -> "opf"
      [] stage = "opf" -> "epub" [] stage = "epub" -> "check"
      [] OTHER -> "done"

\* subprocess.run found a java to start; the interpreter is part of the
\* machine, not one of the optional inputs of main
JavaFound == validation # "FileNotFoundError"

\* C10: with the metadata document, the table of contents or the validator
\* absent, main goes through every stage in order, whatever was skipped,
\* and ends with content.opf and the archive written; the validator stage,
\* whatever the exit status, leaves the archive and the project as they are.
C10_OptionalInputs ==
    /\ [][JavaFound' => pc' = StageAfter(pc)]_vars
    /\ [](pc \in {"done", "failed"} => (IsFile(fs, OpfPath) /\ epub # <<>>))
    /\ [][pc = "check" => (epub' = epub /\ fs' = fs)]_vars

\* C10 witness: a run without metadata document, without table of contents
\* and without validator has ended with both outputs written.
C10_Witness ==
    /\ pc = "done"
    /\ validation = "skipped"
    /\ ~IsFile(fs0, YamlPath)
    /\ ~IsFile(fs0, tocArg)
    /\ IsFile(fs, OpfPath)
    /\ epub # <<>>

\* C11: rename_files destroys no file: the project holds as many XHTML
\* files after it as before, and the mapping it returns sends different old
\* paths to different new paths.
C11_NoFileLost ==
    [][ pc = "rename" =>
          /\ Cardinality(collect_xhtml_files(fs')) = Cardinality(collect_xhtml_files(fs))
          /\ \A p, q \in DOMAIN mapping' : mapping'[p] = mapping'[q] => p = q ]_vars

====
